---- MODULE Spec2Model ----
(***************************************************************************)
(* Model of the meal-plan pipeline: RecipeWorker, PlannerAgent,            *)
(* NutritionVerifierAgent, SchedulerAgent, MemoryBank, SessionService and  *)
(* OrchestratorAgent.                                                      *)
(*                                                                         *)
(* Representation                                                          *)
(*   - a Python dict with string keys is a function whose DOMAIN is the    *)
(*     set of keys present; {} is the function with empty DOMAIN;          *)
(*   - the meal plan (an insertion-ordered dict day -> list) is a sequence *)
(*     of [day, meals] pairs in insertion order;                           *)
(*   - a float is an exact fraction [n, d] with d > 0;                     *)
(*   - a "HH:MM" string is the sequence of its characters, a digit being   *)
(*     its value and ':' being 10 (':' follows '9' in code-point order).   *)
(***************************************************************************)
EXTENDS FiniteSets, Integers, Sequences, TLC

\* ------------------------------------------------------------------ bounds
\* days of a plan handed to the verifier
MaxDays == 2
\* entries of a plan handed to the verifier, over all its days
MaxMeals == 2
\* recipes of a catalog handed to the planner
MaxRecipes == 2
\* create_meal_plan calls of one orchestrator
MaxRuns == 2
\* seconds the wall clock may advance
MaxClock == 1
\* recipes of a catalog handed to a search
MaxCatalog == 6

\* --------------------------------------------------------------- variables
VARIABLES
  nutrition_data,   \* NutritionVerifierAgent.nutrition_data (the gut table)
  hashSeed,         \* string-hash order of the running interpreter process
  vPlan,            \* verifier harness: meal_plan handed to execute
  vProfile,         \* verifier harness: user_profile handed to execute
  vOut,             \* verifier harness: outcome of the first execute
  vOut2,            \* verifier harness: outcome of a repeated execute
  recipes,          \* RecipeWorker.recipes (the catalog)
  pPrefs,           \* planner harness: preferences handed to execute
  pOut,             \* planner and search harness: outcome of execute
  sOut,             \* scheduler harness: outcome of execute on vPlan
  data,             \* MemoryBank.data
  file,             \* content of the memory file
  banks,            \* further MemoryBank instances opened on the memory file
  sessions,         \* SessionService.sessions, in creation order
  clock,            \* datetime.now(), in seconds
  pc,               \* position of the running create_meal_plan, "idle" if none
  run,              \* locals of the running (or last) create_meal_plan
  outcome,          \* how the last create_meal_plan ended, or the memory bank
                    \* call made since
  before,           \* data and file when the call of outcome began
  trace,            \* steps the last create_meal_plan has run
  returned          \* number of create_meal_plan calls that returned a record

verifierVars == <<vPlan, vProfile, vOut, vOut2>>
plannerVars == <<pPrefs, pOut>>
schedulerVars == <<sOut>>
memoryVars == <<data, file>>
bankVars == <<banks>>
orchVars == <<sessions, clock, pc, run, outcome, before, trace, returned>>
vars == <<nutrition_data, hashSeed, recipes, verifierVars, plannerVars, schedulerVars,
          memoryVars, bankVars, orchVars>>

\* ----------------------------------------------------------------- helpers
max(a, b) == IF a >= b THEN a ELSE b

\* dict.get(key, default)
Get(d, k, default) == IF k \in DOMAIN d THEN d[k] ELSE default

EmptyDict == [k \in {} |-> 0]

\* no call made yet
NoResult == [kind |-> "none"]

Range(s) == {s[i] : i \in DOMAIN s}

\* all orderings of a finite set
Perms(S) == {p \in [1..Cardinality(S) -> S] : \A i, j \in 1..Cardinality(S) : p[i] = p[j] => i = j}

\* sequences over S of length at most n
SeqUpTo(S, n) == UNION {[1..k -> S] : k \in 0..n}

RECURSIVE Concat(_)
Concat(ss) == IF ss = <<>> THEN <<>> ELSE Head(ss) \o Concat(Tail(ss))

\* exact fractions
Frac(n, d) == [n |-> n, d |-> d]
FracGeq(a, b) == a.n * b.d >= b.n * a.d
FracSub(a, b) == Frac(a.n * b.d - b.n * a.d, a.d * b.d)
FracScale(a, num, den) == Frac(a.n * num, a.d * den)

\* format(x, ".0f"): nearest integer, ties to even
RoundHalfEven(x) ==
  LET q == x.n \div x.d
      r == x.n % x.d
  IN  IF 2 * r < x.d THEN q
      ELSE IF 2 * r > x.d THEN q + 1
      ELSE IF q % 2 = 0 THEN q ELSE q + 1

\* --------------------------------------------------------------- universes
Days == <<"Monday", "Tuesday", "Wednesday", "Thursday", "Friday", "Saturday", "Sunday">>

\* ingredient names in ascending code-point order (upper case sorts first)
Ingredients == <<"Kidney Beans", "Onion", "banana", "dates", "eggs", "garlic", "rice">>

\* mutation: only the spaces are replaced, the case is kept
CleanKeepingCase(ingredient) ==
  IF ingredient = "Kidney Beans" THEN "Kidney_Beans" ELSE ingredient

\* ingredient.replace(" ", "_").lower() on the names above
Clean(ingredient) ==
  CASE ingredient = "Kidney Beans" -> "kidney_beans"
    [] ingredient = "Onion" -> "onion"
    [] OTHER -> ingredient

\* the gut table: pd.DataFrame() without columns when the CSV is missing,
\* else the rows of the CSV in file order
MissingTable == [loaded |-> FALSE, rows |-> <<>>]
TableA == [loaded |-> TRUE,
           rows |-> << [food_item |-> "eggs", gut_friendly |-> TRUE],
                       [food_item |-> "onion", gut_friendly |-> FALSE],
                       [food_item |-> "garlic", gut_friendly |-> FALSE] >>]
TableB == [loaded |-> TRUE,
           rows |-> << [food_item |-> "onion", gut_friendly |-> TRUE],
                       [food_item |-> "onion", gut_friendly |-> FALSE],
                       [food_item |-> "kidney_beans", gut_friendly |-> TRUE] >>]
Tables == {MissingTable, TableA, TableB}

\* names some table can flag; list(set) orders them by string hash
RiskNames == {i \in Range(Ingredients) :
                \E t \in Tables : \E k \in DOMAIN t.rows :
                   t.rows[k].food_item = Clean(i) /\ ~t.rows[k].gut_friendly}
HashOrders == Perms(RiskNames)

\* user profiles
ProfileTest == [name |-> "Test User", age |-> 20, height_cm |-> 168, weight_kg |-> 45,
                goal |-> "gain_weight", activity_level |-> "moderate"]
ProfileLose == [name |-> "B", weight_kg |-> 60, goal |-> "lose_weight",
                activity_level |-> "sedentary"]
ProfileOdd == [weight_kg |-> 50, goal |-> "maintain", activity_level |-> "athlete"]

ProfileSedentary == [age |-> 30, height_cm |-> 170, weight_kg |-> 60,
                     goal |-> "lose_weight", activity_level |-> "sedentary"]
ProfileLight == [age |-> 40, height_cm |-> 180, weight_kg |-> 70,
                 goal |-> "maintain", activity_level |-> "light"]
ProfileActive == [age |-> 25, height_cm |-> 160, weight_kg |-> 55,
                  goal |-> "lose_weight", activity_level |-> "active"]
ProfileVeryActive == [age |-> 35, height_cm |-> 175, weight_kg |-> 80,
                      goal |-> "gain_weight", activity_level |-> "very_active"]
ProfileAthlete == [age |-> 22, height_cm |-> 165, weight_kg |-> 50,
                   goal |-> "maintain", activity_level |-> "athlete"]

\* ------------------------------------------------------ NutritionVerifier
RECURSIVE SumKey(_, _)
SumKey(meals, key) ==
  IF meals = <<>> THEN 0
  ELSE (IF key \in DOMAIN Head(meals) THEN Head(meals)[key] ELSE 0) + SumKey(Tail(meals), key)

RECURSIVE CountKey(_, _)
CountKey(meals, key) ==
  IF meals = <<>> THEN 0
  ELSE (IF key \in DOMAIN Head(meals) THEN 1 ELSE 0) + CountKey(Tail(meals), key)

\* every entry of every day, in iteration order
AllMeals(meal_plan) == Concat([i \in DOMAIN meal_plan |-> meal_plan[i].meals])

\* every ingredient occurrence, in iteration order (meal.get("ingredients", []))
AllIngredients(meal_plan) ==
  LET ms == AllMeals(meal_plan)
  IN  Concat([i \in DOMAIN ms |-> Get(ms[i], "ingredients", <<>>)])

\* mutation: the total is divided by the number of days that hold an entry
calculate_daily_calories_over_filled_days(meal_plan) ==
  Frac(SumKey(AllMeals(meal_plan), "cal"),
       max(Cardinality({i \in DOMAIN meal_plan : meal_plan[i].meals # <<>>}), 1))

calculate_daily_calories(meal_plan) ==
  Frac(SumKey(AllMeals(meal_plan), "cal"), max(Len(meal_plan), 1))

\* mutation: without protein figures the average is taken over one entry of
\* 100 g
calculate_daily_protein_assumed(meal_plan) ==
  IF CountKey(AllMeals(meal_plan), "protein_g") > 0
  THEN Frac(SumKey(AllMeals(meal_plan), "protein_g"), max(Len(meal_plan), 1))
  ELSE Frac(100, max(Len(meal_plan), 1))

calculate_daily_protein(meal_plan) ==
  IF CountKey(AllMeals(meal_plan), "protein_g") > 0
  THEN Frac(SumKey(AllMeals(meal_plan), "protein_g"), max(Len(meal_plan), 1))
  ELSE Frac(0, 1)

\* nutrition_data[nutrition_data['food_item'] == name]: the matching rows
MatchingRows(table, name) == SelectSeq(table.rows, LAMBDA r : r.food_item = name)

\* list(risk_items): the members of the set in the order of the string hash
ListOfSet(S, seed) == SelectSeq(seed, LAMBDA x : x \in S)

check_gut_risks(meal_plan, table, seed) ==
  LET ings == AllIngredients(meal_plan)
  IN  IF ings # <<>> /\ ~table.loaded
      THEN [kind |-> "raised", error |-> "KeyError"]
      ELSE LET risk_items == {i \in Range(ings) :
                                MatchingRows(table, Clean(i)) # <<>>
                                /\ ~MatchingRows(table, Clean(i))[1].gut_friendly}
           IN  [kind |-> "result", value |-> ListOfSet(risk_items, seed)]

\* mutation: an unknown level counts as sedentary
ActivityMultiplierUnknownSedentary(level) ==
  CASE level = "sedentary" -> 1200
    [] level = "light" -> 1375
    [] level = "moderate" -> 1550
    [] level = "active" -> 1725
    [] level = "very_active" -> 1900
    [] OTHER -> 1200

\* activity multiplier in thousandths
ActivityMultiplier(level) ==
  CASE level = "sedentary" -> 1200
    [] level = "light" -> 1375
    [] level = "moderate" -> 1550
    [] level = "active" -> 1725
    [] level = "very_active" -> 1900
    [] OTHER -> 1550

calculate_target_calories(user_profile, goal) ==
  LET weight_kg == Get(user_profile, "weight_kg", 45)
      height_cm == Get(user_profile, "height_cm", 168)
      age == Get(user_profile, "age", 20)
      activity_level == Get(user_profile, "activity_level", "moderate")
      bmr4 == 40 * weight_kg + 25 * height_cm - 20 * age + 20
      tdee == Frac(bmr4 * ActivityMultiplier(activity_level), 4000)
  IN  IF goal = "gain_weight" THEN Frac(tdee.n + 500 * 4000, 4000)
      ELSE IF goal = "lose_weight" THEN Frac(tdee.n - 500 * 4000, 4000)
      ELSE tdee

\* mutation: more protein per kg for a user gaining weight
calculate_target_protein_by_goal(user_profile) ==
  IF Get(user_profile, "goal", "gain_weight") = "gain_weight"
  THEN Frac(Get(user_profile, "weight_kg", 45) * 22, 10)
  ELSE Frac(Get(user_profile, "weight_kg", 45) * 2, 1)

calculate_target_protein(user_profile) ==
  Frac(Get(user_profile, "weight_kg", 45) * 2, 1)

\* mutation: the gut line comes first
RecommendationsGutFirst(calorie_met, protein_met, gut_safe, daily_calories, target_calories, daily_protein, target_protein, gut_risk_items) ==
  (IF ~gut_safe THEN << [about |-> "gut", items |-> gut_risk_items] >> ELSE <<>>)
  \o (IF ~calorie_met
      THEN << [about |-> "calories",
               amount |-> RoundHalfEven(FracSub(target_calories, daily_calories))] >>
      ELSE <<>>)
  \o (IF ~protein_met
      THEN << [about |-> "protein",
               amount |-> RoundHalfEven(FracSub(target_protein, daily_protein))] >>
      ELSE <<>>)

Recommendations(calorie_met, protein_met, gut_safe, daily_calories, target_calories, daily_protein, target_protein, gut_risk_items) ==
  (IF ~calorie_met
   THEN << [about |-> "calories",
            amount |-> RoundHalfEven(FracSub(target_calories, daily_calories))] >>
   ELSE <<>>)
  \o (IF ~protein_met
      THEN << [about |-> "protein",
               amount |-> RoundHalfEven(FracSub(target_protein, daily_protein))] >>
      ELSE <<>>)
  \o (IF ~gut_safe THEN << [about |-> "gut", items |-> gut_risk_items] >> ELSE <<>>)

\* mutation: the gut check is left out of the verdict
PassedIgnoringGut(calorie_met, protein_met, gut_safe) == calorie_met /\ protein_met

Passed(calorie_met, protein_met, gut_safe) == calorie_met /\ protein_met /\ gut_safe

verifier_execute(meal_plan, user_profile, table, seed) ==
  LET goal == Get(user_profile, "goal", "gain_weight")
      daily_calories == calculate_daily_calories(meal_plan)
      daily_protein == calculate_daily_protein(meal_plan)
      gut == check_gut_risks(meal_plan, table, seed)
  IN  IF gut.kind = "raised" THEN gut
      ELSE
        LET gut_risk_items == gut.value
            target_calories == calculate_target_calories(user_profile, goal)
            target_protein == calculate_target_protein(user_profile)
            calorie_met == FracGeq(daily_calories, FracScale(target_calories, 9, 10))
            protein_met == FracGeq(daily_protein, FracScale(target_protein, 9, 10))
            gut_safe == Len(gut_risk_items) = 0
        IN  [kind |-> "result",
             passed |-> Passed(calorie_met, protein_met, gut_safe),
             daily_calories |-> daily_calories,
             target_calories |-> target_calories,
             calorie_met |-> calorie_met,
             daily_protein |-> daily_protein,
             target_protein |-> target_protein,
             protein_met |-> protein_met,
             gut_risk_items |-> gut_risk_items,
             gut_safe |-> gut_safe,
             recommendations |-> Recommendations(calorie_met, protein_met, gut_safe,
                                   daily_calories, target_calories,
                                   daily_protein, target_protein, gut_risk_items)]

\* ------------------------------------------------------------ RecipeWorker
Abs(x) == IF x < 0 THEN -x ELSE x

\* mutation: elements of equal key come out in reverse order
SortByLaterFirst(s, less) ==
  LET Rank(i) == 1 + Cardinality({j \in DOMAIN s :
                        less[j, i] \/ (~less[i, j] /\ j > i)})
  IN  [r \in DOMAIN s |-> s[CHOOSE i \in DOMAIN s : Rank(i) = r]]

\* sorted(s, key=...): less[i, j] says the key of s[i] is less than that of
\* s[j]; elements of equal key keep their order
StableSortBy(s, less) ==
  LET Rank(i) == 1 + Cardinality({j \in DOMAIN s :
                        less[j, i] \/ (~less[i, j] /\ j < i)})
  IN  [r \in DOMAIN s |-> s[CHOOSE i \in DOMAIN s : Rank(i) = r]]

\* mutation: no fallback to the Indian cuisines
matches_criteria_without_fallback(recipe, meal_type, exclude_allergens, preferred_cuisines, gut_friendly_only) ==
  IF meal_type \notin Range(Get(recipe, "meal_type", <<>>)) THEN FALSE
  ELSE IF \E allergen \in Range(exclude_allergens) :
            allergen \in Range(Get(recipe, "allergens", <<>>)) THEN FALSE
  ELSE IF /\ preferred_cuisines # <<>>
          /\ Get(recipe, "cuisine", "None") \notin Range(preferred_cuisines) THEN FALSE
  ELSE IF gut_friendly_only /\ ~Get(recipe, "gut_friendly", FALSE) THEN FALSE
  ELSE TRUE

matches_criteria(recipe, meal_type, exclude_allergens, preferred_cuisines, gut_friendly_only) ==
  IF meal_type \notin Range(Get(recipe, "meal_type", <<>>)) THEN FALSE
  ELSE IF \E allergen \in Range(exclude_allergens) :
            allergen \in Range(Get(recipe, "allergens", <<>>)) THEN FALSE
  ELSE IF /\ preferred_cuisines # <<>>
          /\ Get(recipe, "cuisine", "None") \notin Range(preferred_cuisines)
          /\ Get(recipe, "cuisine", "None") \notin {"Indian", "South Indian"} THEN FALSE
  ELSE IF gut_friendly_only /\ ~Get(recipe, "gut_friendly", FALSE) THEN FALSE
  ELSE TRUE

\* mutation: the slice keeps one element more
TakeOneMore(s, n) == SubSeq(s, 1, IF Len(s) < n + 1 THEN Len(s) ELSE n + 1)

\* s[:n]
Take(s, n) == SubSeq(s, 1, IF Len(s) < n THEN Len(s) ELSE n)

SearchCap == 5

recipe_worker_execute(catalog, preferences, meal_type, calorie_target) ==
  LET exclude_allergens == Get(preferences, "allergies", <<>>)
      preferred_cuisines == Get(preferences, "cuisine", <<>>)
      gut_friendly_only == Get(preferences, "gut_issues", FALSE)
      matched == SelectSeq(catalog, LAMBDA r :
                   matches_criteria(r, meal_type, exclude_allergens,
                                    preferred_cuisines, gut_friendly_only))
      sorted == StableSortBy(matched, [i \in DOMAIN matched, j \in DOMAIN matched |->
                   Abs(matched[i].calories - calorie_target)
                     < Abs(matched[j].calories - calorie_target)])
  IN  [recipes |-> Take(sorted, SearchCap), total_found |-> Len(matched)]

\* ------------------------------------------------------------ PlannerAgent
T0700 == <<0, 7, 10, 0, 0>>
T0800 == <<0, 8, 10, 0, 0>>
T1000 == <<1, 0, 10, 0, 0>>
T1100 == <<1, 1, 10, 0, 0>>
T1330 == <<1, 3, 10, 3, 0>>
T1700 == <<1, 7, 10, 0, 0>>
T1800 == <<1, 8, 10, 0, 0>>
T2000 == <<2, 0, 10, 0, 0>>

workout_schedule ==
  [ Monday |-> [type |-> "resistance", focus |-> "Upper Body", duration_min |-> 45, time |-> T1800],
    Tuesday |-> [type |-> "cardio", focus |-> "Light Jogging", duration_min |-> 30, time |-> T0700],
    Wednesday |-> [type |-> "resistance", focus |-> "Lower Body", duration_min |-> 45, time |-> T1800],
    Thursday |-> [type |-> "yoga", focus |-> "Flexibility & Core", duration_min |-> 30, time |-> T0700],
    Friday |-> [type |-> "resistance", focus |-> "Full Body", duration_min |-> 50, time |-> T1800],
    Saturday |-> [type |-> "sports", focus |-> "Recreational Activity", duration_min |-> 60, time |-> T1000],
    Sunday |-> [type |-> "rest", focus |-> "Active Recovery", duration_min |-> 20, time |-> T0800] ]

\* the workout entry of a day; notes holds the two values the text is
\* formatted from
WorkoutEntry(workout) ==
  [meal |-> "workout", time |-> workout.time, type |-> workout.type, focus |-> workout.focus,
   duration_min |-> workout.duration_min, notes |-> <<workout.focus, workout.duration_min>>]

\* mutation: the rest day gets no workout entry
get_workout_skipping_rest(day) ==
  IF day \in DOMAIN workout_schedule /\ workout_schedule[day].type # "rest"
  THEN <<WorkoutEntry(workout_schedule[day])>>
  ELSE <<>>

\* the entry as a one-element sequence, None as the empty sequence
get_workout_for_day(day) ==
  IF day \in DOMAIN workout_schedule
  THEN <<WorkoutEntry(workout_schedule[day])>>
  ELSE <<>>

MealEntry(meal, time, recipe, notes) ==
  [meal |-> meal, time |-> time, recipe_id |-> recipe.id, recipe_name |-> recipe.title,
   cal |-> recipe.calories, protein_g |-> Get(recipe, "protein_g", 0),
   ingredients |-> Get(recipe, "ingredients", <<>>),
   prep_time_min |-> Get(recipe, "prep_time_min", 0), notes |-> notes]

\* the entry appended for a slot: none when the search found nothing; idx is
\* the 0-based index the code picks
SlotEntry(found, idx, meal, time, notes) ==
  IF found = <<>> THEN <<>> ELSE <<MealEntry(meal, time, found[idx + 1], notes)>>

\* mutation: lunch is always the top candidate
LunchIndexAlwaysTop(day, lunch_recipes) == 0

LunchIndex(day, lunch_recipes) ==
  IF day # "Monday" THEN 0 ELSE (IF Len(lunch_recipes) > 1 THEN 1 ELSE 0)

EveningSnackIndex(evening_snack_recipes) ==
  IF Len(evening_snack_recipes) > 1 THEN 1 ELSE 0

\* mutation: past the last candidate the last one is repeated
DinnerIndexClamped(d, dinner_recipes) ==
  IF d - 1 < Len(dinner_recipes) THEN d - 1 ELSE Len(dinner_recipes) - 1

\* days.index(day) % len(dinner_recipes); d is the 1-based position of the day
DinnerIndex(d, dinner_recipes) == (d - 1) % Len(dinner_recipes)

DailyMeals(catalog, preferences, d) ==
  LET day == Days[d]
      breakfast_recipes == recipe_worker_execute(catalog, preferences, "breakfast", 500).recipes
      snack_recipes == recipe_worker_execute(catalog, preferences, "snack", 400).recipes
      lunch_recipes == recipe_worker_execute(catalog, preferences, "lunch", 700).recipes
      evening_snack_recipes == recipe_worker_execute(catalog, preferences, "snack", 450).recipes
      dinner_recipes == recipe_worker_execute(catalog, preferences, "dinner", 650).recipes
  IN  SlotEntry(breakfast_recipes, 0, "breakfast", T0800, "High-protein breakfast for energy")
      \o SlotEntry(snack_recipes, 0, "snack", T1100, "Mid-morning snack")
      \o SlotEntry(lunch_recipes, LunchIndex(day, lunch_recipes), "lunch", T1330,
                   "Protein-rich lunch")
      \o SlotEntry(evening_snack_recipes, EveningSnackIndex(evening_snack_recipes),
                   "evening_snack", T1700, "Pre-workout fuel")
      \o (IF dinner_recipes = <<>> THEN <<>>
          ELSE <<MealEntry("dinner", T2000,
                           dinner_recipes[DinnerIndex(d, dinner_recipes) + 1],
                           "Light dinner for gut health")>>)
      \o get_workout_for_day(day)

generate_mock_plan(catalog, user_profile, preferences) ==
  [meal_plan |-> [d \in DOMAIN Days |->
                    [day |-> Days[d], meals |-> DailyMeals(catalog, preferences, d)]],
   estimated_daily_calories |-> 3000,
   plan_type |-> "weight_gain_gut_friendly"]

\* use_real_llm is off (no GEMINI_API_KEY): the mock plan is the plan
planner_execute(catalog, user_profile, preferences) ==
  generate_mock_plan(catalog, user_profile, preferences)

\* ---------------------------------------------------------- SchedulerAgent
\* a < b for strings given as character sequences (code-point order)
RECURSIVE StrLess(_, _)
StrLess(a, b) ==
  IF b = <<>> THEN FALSE
  ELSE IF a = <<>> THEN TRUE
  ELSE IF Head(a) # Head(b) THEN Head(a) < Head(b)
  ELSE StrLess(Tail(a), Tail(b))

T0000 == <<0, 0, 10, 0, 0>>

\* mutation: the entries that are not meals are left out
schedule_meals_dropping_workouts(meal_plan, user_profile) ==
  [i \in DOMAIN meal_plan |->
     [day |-> meal_plan[i].day,
      meals |-> SelectSeq(meal_plan[i].meals, LAMBDA m : "cal" \in DOMAIN m)]]

schedule_meals(meal_plan, user_profile) ==
  [i \in DOMAIN meal_plan |->
     [day |-> meal_plan[i].day,
      meals |-> StableSortBy(meal_plan[i].meals,
                   [a \in DOMAIN meal_plan[i].meals, b \in DOMAIN meal_plan[i].meals |->
                      StrLess(Get(meal_plan[i].meals[a], "time", T0000),
                              Get(meal_plan[i].meals[b], "time", T0000))])]]

\* base_quantities in grams (thousandths of the kg figures of the code)
base_quantities ==
  [ rice |-> 500, chicken |-> 300, chicken_breast |-> 250, eggs |-> 2000, milk |-> 200,
    yogurt |-> 150, paneer |-> 200, vegetables |-> 300, potato |-> 200, sweet_potato |-> 200,
    spinach |-> 200, tomatoes |-> 150, banana |-> 1000, dates |-> 50, almonds |-> 30,
    cashews |-> 30, coconut |-> 100, ghee |-> 50, olive_oil |-> 30, whole_wheat_flour |-> 150,
    moong_dal |-> 100, urad_dal |-> 100, lentils |-> 100, chickpeas |-> 100,
    kidney_beans |-> 100, semolina |-> 100, oats |-> 100 ]

\* mutation: the pieces grow with the number of meals, not with its square
estimate_quantity_per_meal(ingredient, meal_count) ==
  LET base_qty == Get(base_quantities, Clean(ingredient), 100)
      total_g == base_qty * meal_count
  IN  IF ingredient \in {"eggs", "banana", "dates"}
      THEN [amount |-> total_g \div 1000, unit |-> "pieces"]
      ELSE IF total_g < 1000 THEN [amount |-> total_g, unit |-> "g"]
      ELSE [amount |-> RoundHalfEven(Frac(total_g, 100)), unit |-> "kg"]

\* the quantity text as [amount, unit]; a kg amount is in tenths of a kg.
\* For the base quantities of the names in Ingredients the float products of
\* the code equal the exact ones.
estimate_quantity(ingredient, meal_count) ==
  LET base_qty == Get(base_quantities, Clean(ingredient), 100)
      total_g == base_qty * meal_count
  IN  IF ingredient \in {"eggs"}
      THEN [amount |-> (total_g * meal_count) \div 1000, unit |-> "pieces"]
      ELSE IF ingredient \in {"banana", "dates"}
      THEN [amount |-> (total_g * meal_count) \div 1000, unit |-> "pieces"]
      ELSE IF total_g < 100 THEN [amount |-> total_g, unit |-> "g"]
      ELSE IF total_g < 1000 THEN [amount |-> total_g, unit |-> "g"]
      ELSE [amount |-> RoundHalfEven(Frac(total_g, 100)), unit |-> "kg"]

\* mutation: names are compared without regard to case
NameRankIgnoringCase(name) ==
  CHOOSE i \in 1..7 :
    <<"banana", "dates", "eggs", "garlic", "Kidney Beans", "Onion", "rice">>[i] = name

\* position of a name in code-point order
NameRank(name) == CHOOSE i \in DOMAIN Ingredients : Ingredients[i] = name

\* mutation: a name is counted once however often it occurs
OccurrencesOnce(seq, x) == IF \E i \in DOMAIN seq : seq[i] = x THEN 1 ELSE 0

Occurrences(seq, x) == Cardinality({i \in DOMAIN seq : seq[i] = x})

\* the keys of a dict filled in the order of seq: first occurrences, in order
RECURSIVE FirstOccurrences(_)
FirstOccurrences(seq) ==
  IF seq = <<>> THEN <<>>
  ELSE LET front == SubSeq(seq, 1, Len(seq) - 1)
           last == seq[Len(seq)]
       IN  IF last \in Range(front) THEN FirstOccurrences(front)
           ELSE Append(FirstOccurrences(front), last)

generate_shopping_list(meal_plan) ==
  LET ms == AllMeals(meal_plan)
      occ == Concat([i \in DOMAIN ms |->
                       IF "ingredients" \in DOMAIN ms[i] THEN ms[i].ingredients ELSE <<>>])
      keys == FirstOccurrences(occ)
      sorted == StableSortBy(keys, [a \in DOMAIN keys, b \in DOMAIN keys |->
                                      NameRank(keys[a]) < NameRank(keys[b])])
  IN  [k \in DOMAIN sorted |->
         [item |-> sorted[k],
          qty |-> estimate_quantity(sorted[k], Occurrences(occ, sorted[k])),
          meals_used |-> Occurrences(occ, sorted[k])]]

scheduler_execute(meal_plan, user_profile) ==
  LET scheduled_plan == schedule_meals(meal_plan, user_profile)
      shopping_list == generate_shopping_list(meal_plan)
  IN  [scheduled_plan |-> scheduled_plan,
       shopping_list |-> shopping_list,
       total_items |-> Len(shopping_list)]

\* ---------------------------------------------------------------- catalogs
RecipeThali == [id |-> "r1", title |-> "Thali", meal_type |-> <<"breakfast", "snack", "lunch", "dinner">>,
                cuisine |-> "Indian", calories |-> 600, protein_g |-> 25,
                ingredients |-> <<"eggs", "rice">>, prep_time_min |-> 30,
                allergens |-> <<>>, gut_friendly |-> TRUE]
RecipePasta == [id |-> "r2", title |-> "Pasta", meal_type |-> <<"lunch", "dinner">>,
                cuisine |-> "Italian", calories |-> 700, protein_g |-> 30,
                ingredients |-> <<"Onion", "garlic">>, prep_time_min |-> 20,
                allergens |-> <<"gluten">>, gut_friendly |-> FALSE]
RecipeSmoothie == [id |-> "r3", title |-> "Smoothie", meal_type |-> <<"breakfast", "snack">>,
                   cuisine |-> "Continental", calories |-> 400,
                   ingredients |-> <<"banana", "dates">>,
                   allergens |-> <<"nuts">>, gut_friendly |-> TRUE]
RecipeDal == [id |-> "r4", title |-> "Dal", meal_type |-> <<"lunch", "dinner">>,
              cuisine |-> "South Indian", calories |-> 650, protein_g |-> 28,
              ingredients |-> <<"Kidney Beans", "rice">>, prep_time_min |-> 40,
              allergens |-> <<>>, gut_friendly |-> TRUE]
RecipePool == {RecipeThali, RecipePasta, RecipeSmoothie, RecipeDal}

PrefsTest == [cuisine |-> <<"Indian", "South Indian">>, dislikes |-> <<>>,
              allergies |-> <<>>, gut_issues |-> TRUE]
PrefsItalian == [cuisine |-> <<"Italian">>, allergies |-> <<"nuts">>]
PrefsStrict == [cuisine |-> <<"Mexican">>, allergies |-> <<"gluten">>, gut_issues |-> TRUE]
PrefsNone == [gut_issues |-> FALSE]
PreferencePool == {EmptyDict, PrefsTest, PrefsItalian, PrefsStrict, PrefsNone}

\* the recipe database file: missing, or holding a JSON document
MissingRecipeDb == [exists |-> FALSE]
RecipeDb(content) == [exists |-> TRUE, content |-> content]

\* mutation: a missing database yields a built-in recipe
load_recipes_with_default(db) ==
  IF db.exists THEN Get(db.content, "recipes", <<>>) ELSE <<RecipeThali>>

\* RecipeWorker._load_recipes
load_recipes(db) ==
  IF db.exists THEN Get(db.content, "recipes", <<>>) ELSE <<>>

\* -------------------------------------------------------------- MemoryBank
\* the content _ensure_file_exists writes and _load falls back to
initial_data == [user_profile |-> EmptyDict, preferences |-> EmptyDict,
                 pantry |-> EmptyDict, history |-> <<>>]

\* the file holds a JSON document, or text json.load rejects
FileOf(content) == [valid |-> TRUE, content |-> content]
CorruptFile == [valid |-> FALSE]

\* MemoryBank._load
load(f) == IF f.valid THEN f.content ELSE initial_data

\* how a _save can end: written, or json.dump raised after open(..., 'w')
\* truncated the file
SaveOutcomes == {"ok", "dump_error"}

\* MemoryBank._save: the file after the call
save(f, d, io) ==
  IF io = "ok" THEN FileOf(d) ELSE CorruptFile

\* dict.update
Update(d, other) ==
  [k \in DOMAIN d \cup DOMAIN other |-> IF k \in DOMAIN other THEN other[k] ELSE d[k]]

SecondsPerDay == 86400

\* strftime("%Y-%m-%d") and strftime("%Y%m%d_%H%M%S") of a time in seconds:
\* the day number, and the day number with the second of the day
DateOf(t) == t \div SecondsPerDay
PlanIdOf(t) == <<t \div SecondsPerDay, t % SecondsPerDay>>

\* MemoryBank.add_plan_to_history, before its _save
add_plan_to_history(d, plan_id, success_rate, now) ==
  [d EXCEPT !.history = Append(@, [date |-> DateOf(now), plan_id |-> plan_id,
                                    success_rate |-> success_rate])]

\* ---------------------------------------------------------- SessionService
create_session(ss) ==
  Append(ss, [id |-> Len(ss) + 1, status |-> "active", data |-> {}])

\* the keys of the session's data stand for its data
update_session(ss, session_id, key) ==
  IF session_id \in DOMAIN ss
  THEN [ss EXCEPT ![session_id].data = @ \cup {key}]
  ELSE ss

\* pause_session: the status is set whatever it was
pause_session(ss, session_id) ==
  IF session_id \in DOMAIN ss
  THEN [ss EXCEPT ![session_id].status = "paused"]
  ELSE ss

\* resume_session: the status is set whatever it was
resume_session(ss, session_id) ==
  IF session_id \in DOMAIN ss
  THEN [ss EXCEPT ![session_id].status = "active"]
  ELSE ss

complete_session(ss, session_id, result) ==
  IF session_id \in DOMAIN ss
  THEN [ss EXCEPT ![session_id] = [result |-> result] @@ [@ EXCEPT !.status = "completed"]]
  ELSE ss

\* mutation: the error is stored, the status stays
fail_session_keeping_status(ss, session_id, error) ==
  IF session_id \in DOMAIN ss
  THEN [ss EXCEPT ![session_id] = [error |-> error] @@ @]
  ELSE ss

fail_session(ss, session_id, error) ==
  IF session_id \in DOMAIN ss
  THEN [ss EXCEPT ![session_id] = [error |-> error] @@ [@ EXCEPT !.status = "failed"]]
  ELSE ss

\* ------------------------------------------------------- OrchestratorAgent
\* mutation: the scheduler is called before the verifier
StepOrderSchedulerFirst == <<"planner", "scheduler", "verifier", "history", "complete">>

\* the statements of the try block after the profile check, in program order
StepOrder == <<"planner", "verifier", "scheduler", "history", "complete">>

NextStep(step) == StepOrder[(CHOOSE i \in DOMAIN StepOrder : StepOrder[i] = step) + 1]

\* mutation: the check is gone
ProfileNeverMissing(user_profile) == FALSE

\* not user_profile
ProfileMissing(user_profile) == DOMAIN user_profile = {}

NoOutcome == [kind |-> "none"]

InitOrchestratorAlone ==
  /\ data = initial_data
  /\ file = FileOf(initial_data)
  /\ sessions = <<>>
  /\ clock = 0
  /\ pc = "idle"
  /\ run = EmptyDict
  /\ outcome = NoOutcome
  /\ before = [data |-> data, file |-> file]
  /\ trace = <<>>
  /\ returned = 0

\* no other instance is opened on the memory file
InitOrchestratorIdle ==
  /\ InitOrchestratorAlone
  /\ banks = <<>>

harnessVars == <<verifierVars, plannerVars, schedulerVars, bankVars>>

\* a call of the memory bank follows the last create_meal_plan: the model
\* remembers it in place of that call
RecordCall(key, value, io) ==
  /\ run' = EmptyDict
  /\ outcome' = [kind |-> "stored", key |-> key, value |-> value, raised |-> io # "ok"]
  /\ before' = [data |-> data, file |-> file]
  /\ trace' = <<>>
componentVars == <<nutrition_data, hashSeed, recipes>>

\* mutation: the profile is merged into the stored one
set_user_profile_merging(profile, io) ==
  /\ pc = "idle"
  /\ Len(sessions) < MaxRuns
  /\ data' = [data EXCEPT !.user_profile = Update(@, profile)]
  /\ file' = save(file, data', io)
  /\ RecordCall("user_profile", profile, io)
  /\ UNCHANGED <<sessions, clock, pc, returned, componentVars, harnessVars>>

\* MemoryBank.set_user_profile
set_user_profile(profile, io) ==
  /\ pc = "idle"
  /\ Len(sessions) < MaxRuns
  /\ data' = [data EXCEPT !.user_profile = profile]
  /\ file' = save(file, data', io)
  /\ RecordCall("user_profile", profile, io)
  /\ UNCHANGED <<sessions, clock, pc, returned, componentVars, harnessVars>>

\* MemoryBank.set_preferences
set_preferences(preferences, io) ==
  /\ pc = "idle"
  /\ Len(sessions) < MaxRuns
  /\ data' = [data EXCEPT !.preferences = preferences]
  /\ file' = save(file, data', io)
  /\ RecordCall("preferences", preferences, io)
  /\ UNCHANGED <<sessions, clock, pc, returned, componentVars, harnessVars>>

\* create_meal_plan, line 44: the session is created
Begin(user_input) ==
  /\ pc = "idle"
  /\ Len(sessions) < MaxRuns
  /\ sessions' = create_session(sessions)
  /\ run' = [user_input |-> user_input, session_id |-> Len(sessions) + 1]
  /\ before' = [data |-> data, file |-> file]
  /\ trace' = <<>>
  /\ outcome' = NoOutcome
  /\ pc' = "load"
  /\ UNCHANGED <<data, file, clock, returned, componentVars, harnessVars>>

\* lines 48-66: user_profile and preferences are the dicts held by the memory
\* bank, so the updates of lines 53-54 change data itself
LoadProfile ==
  /\ pc = "load"
  /\ data' = IF DOMAIN run.user_input # {}
             THEN [data EXCEPT
                     !.user_profile = Update(@, Get(run.user_input, "profile", EmptyDict)),
                     !.preferences = Update(@, Get(run.user_input, "preferences", EmptyDict))]
             ELSE data
  /\ IF ProfileMissing(data'.user_profile)
     THEN /\ run' = [error |-> "ValueError"] @@ run
          /\ pc' = "except"
          /\ UNCHANGED sessions
     ELSE /\ sessions' = update_session(sessions, run.session_id, "context")
          /\ pc' = StepOrder[1]
          /\ UNCHANGED run
  /\ UNCHANGED <<file, clock, outcome, before, trace, returned, componentVars, harnessVars>>

\* lines 68-72
RunPlanner ==
  /\ pc = "planner"
  /\ trace' = Append(trace, "planner")
  /\ LET planner_result == planner_execute(recipes, data.user_profile, data.preferences)
     IN  run' = [planner_result |-> planner_result] @@ run
  /\ sessions' = update_session(sessions, run.session_id, "meal_plan")
  /\ pc' = NextStep("planner")
  /\ UNCHANGED <<data, file, clock, outcome, before, returned, componentVars, harnessVars>>

\* line 70: the local meal_plan of the running call
run_meal_plan == run.planner_result.meal_plan

\* lines 74-86
RunVerifier ==
  /\ pc = "verifier"
  /\ trace' = Append(trace, "verifier")
  /\ LET verification_result ==
           verifier_execute(run_meal_plan, data.user_profile, nutrition_data, hashSeed)
     IN  IF verification_result.kind = "raised"
         THEN /\ run' = [verifier_arg |-> run_meal_plan,
                         error |-> verification_result.error] @@ run
              /\ pc' = "except"
              /\ UNCHANGED sessions
         ELSE /\ run' = [verifier_arg |-> run_meal_plan,
                         verification_result |-> verification_result] @@ run
              /\ sessions' = update_session(sessions, run.session_id, "verification")
              /\ pc' = NextStep("verifier")
  /\ UNCHANGED <<data, file, clock, outcome, before, returned, componentVars, harnessVars>>

\* lines 88-95
RunScheduler ==
  /\ pc = "scheduler"
  /\ trace' = Append(trace, "scheduler")
  /\ run' = [scheduler_arg |-> run_meal_plan,
             scheduler_result |-> scheduler_execute(run_meal_plan, data.user_profile)] @@ run
  /\ sessions' = update_session(sessions, run.session_id, "schedule")
  /\ pc' = NextStep("scheduler")
  /\ UNCHANGED <<data, file, clock, outcome, before, returned, componentVars, harnessVars>>

SuccessRate(passed) == IF passed THEN 10 ELSE 8

\* lines 97-115
FinalResult(plan_id, now) ==
  [plan_id |-> plan_id,
   session_id |-> run.session_id,
   user |-> Get(data.user_profile, "name", "User"),
   days |-> run.scheduler_result.scheduled_plan,
   shopping_list |-> run.scheduler_result.shopping_list,
   estimated_daily_calories |-> run.planner_result.estimated_daily_calories,
   verification |-> [passed |-> run.verification_result.passed,
                     daily_calories |-> run.verification_result.daily_calories,
                     target_calories |-> run.verification_result.target_calories,
                     daily_protein |-> run.verification_result.daily_protein,
                     target_protein |-> run.verification_result.target_protein,
                     recommendations |-> run.verification_result.recommendations],
   created_at |-> now]

\* lines 97-117: the record is assembled and add_plan_to_history appends the
\* entry to the list held by the memory bank, then saves
AddHistory(now, io) ==
  /\ pc = "history"
  /\ now \in {clock, clock + 1}
  /\ trace' = Append(trace, "history")
  /\ clock' = now
  /\ LET plan_id == PlanIdOf(now)
     IN  /\ data' = add_plan_to_history(data, plan_id,
                       SuccessRate(run.verification_result.passed), now)
         /\ file' = save(file, data', io)
         /\ IF io = "ok"
            THEN /\ run' = [final_result |-> FinalResult(plan_id, now)] @@ run
                 /\ pc' = NextStep("history")
            ELSE /\ run' = [error |-> io] @@ run
                 /\ pc' = "except"
  /\ UNCHANGED <<sessions, outcome, before, returned, componentVars, harnessVars>>

\* lines 119-126
Complete ==
  /\ pc = "complete"
  /\ trace' = Append(trace, "complete")
  /\ sessions' = complete_session(sessions, run.session_id, run.final_result)
  /\ outcome' = [kind |-> "returned", value |-> run.final_result]
  /\ returned' = returned + 1
  /\ pc' = "idle"
  /\ UNCHANGED <<data, file, clock, run, before, componentVars, harnessVars>>

\* lines 128-134
Except ==
  /\ pc = "except"
  /\ sessions' = fail_session(sessions, run.session_id, run.error)
  /\ outcome' = [kind |-> "raised", error |-> run.error]
  /\ pc' = "idle"
  /\ UNCHANGED <<data, file, clock, run, before, trace, returned, componentVars, harnessVars>>

\* --------------------------------------------- orchestrator specification
OrchestratorCatalogs == {<<>>, <<RecipeThali, RecipePasta>>}
OrchestratorTables == {MissingTable, TableA}
ProfileInputs == {EmptyDict, ProfileTest}
PreferenceInputs == {PrefsTest}
UserInputs == {EmptyDict,
               [profile |-> [weight_kg |-> 50], preferences |-> [gut_issues |-> TRUE]]}

Init ==
  /\ recipes \in OrchestratorCatalogs
  /\ nutrition_data \in OrchestratorTables
  /\ hashSeed \in HashOrders
  /\ InitOrchestratorIdle
  /\ vPlan = <<>>
  /\ vProfile = EmptyDict
  /\ vOut = NoResult
  /\ vOut2 = NoResult
  /\ pPrefs = EmptyDict
  /\ pOut = NoResult
  /\ sOut = NoResult

Next ==
  \/ \E p \in ProfileInputs, io \in SaveOutcomes : set_user_profile(p, io)
  \/ \E q \in PreferenceInputs, io \in SaveOutcomes : set_preferences(q, io)
  \/ \E u \in UserInputs : Begin(u)
  \/ LoadProfile
  \/ RunPlanner
  \/ RunVerifier
  \/ RunScheduler
  \/ \E now \in 0..MaxClock, io \in SaveOutcomes : AddHistory(now, io)
  \/ Complete
  \/ Except

Spec == Init /\ [][Next]_vars

\* ------------------------------------------------- sessions specification
\* a caller of orchestrator.session_service between two calls of the
\* orchestrator: the model remembers the call in place of the last one
ServiceCall(method, session_id) ==
  /\ pc = "idle"
  /\ run' = EmptyDict
  /\ outcome' = [kind |-> "service", method |-> method]
  /\ before' = [data |-> data, file |-> file]
  /\ trace' = <<>>
  /\ UNCHANGED <<data, file, clock, pc, returned, componentVars, harnessVars>>

CallCreate ==
  /\ Len(sessions) < MaxRuns
  /\ ServiceCall("create_session", Len(sessions) + 1)
  /\ sessions' = create_session(sessions)

CallUpdate(session_id) ==
  /\ ServiceCall("update_session", session_id)
  /\ sessions' = update_session(sessions, session_id, "note")

CallPause(session_id) ==
  /\ ServiceCall("pause_session", session_id)
  /\ sessions' = pause_session(sessions, session_id)

CallResume(session_id) ==
  /\ ServiceCall("resume_session", session_id)
  /\ sessions' = resume_session(sessions, session_id)

CallComplete(session_id) ==
  /\ ServiceCall("complete_session", session_id)
  /\ sessions' = complete_session(sessions, session_id, NoResult)

CallFail(session_id) ==
  /\ ServiceCall("fail_session", session_id)
  /\ sessions' = fail_session(sessions, session_id, "stopped")

\* OrchestratorAgent.resume_session: for a paused session create_meal_plan()
\* is called, which begins with a session of its own; otherwise ValueError
ResumeSession(session_id) ==
  /\ pc = "idle"
  /\ IF session_id \in DOMAIN sessions /\ sessions[session_id].status = "paused"
     THEN /\ Len(sessions) < MaxRuns
          /\ sessions' = create_session(sessions)
          /\ run' = [user_input |-> EmptyDict, session_id |-> Len(sessions) + 1,
                     resumed |-> session_id]
          /\ outcome' = NoOutcome
          /\ pc' = "load"
     ELSE /\ sessions' = sessions
          /\ run' = [resumed |-> session_id, sessions_before |-> sessions]
          /\ outcome' = [kind |-> "raised", error |-> "ValueError"]
          /\ pc' = "idle"
  /\ before' = [data |-> data, file |-> file]
  /\ trace' = <<>>
  /\ UNCHANGED <<data, file, clock, returned, componentVars, harnessVars>>

\* session ids callers pass: those of the sessions and one that is unknown
SessionIds == 1..(MaxRuns + 1)

InitSessions ==
  /\ recipes = <<RecipeThali, RecipePasta>>
  /\ nutrition_data = TableA
  /\ hashSeed = CHOOSE h \in HashOrders : TRUE
  /\ InitOrchestratorIdle
  /\ vPlan = <<>>
  /\ vProfile = EmptyDict
  /\ vOut = NoResult
  /\ vOut2 = NoResult
  /\ pPrefs = EmptyDict
  /\ pOut = NoResult
  /\ sOut = NoResult

NextSessions ==
  \/ set_user_profile(ProfileTest, "ok")
  \/ Begin(EmptyDict)
  \/ \E id \in SessionIds : ResumeSession(id)
  \/ LoadProfile
  \/ RunPlanner
  \/ RunVerifier
  \/ RunScheduler
  \/ AddHistory(clock, "ok")
  \/ Complete
  \/ Except
  \/ CallCreate
  \/ \E id \in SessionIds : CallPause(id)

SpecSessions == InitSessions /\ [][NextSessions]_vars

\* the session service alone, called in any order
NextService ==
  \/ CallCreate
  \/ \E id \in SessionIds : CallUpdate(id)
  \/ \E id \in SessionIds : CallPause(id)
  \/ \E id \in SessionIds : CallResume(id)
  \/ \E id \in SessionIds : CallComplete(id)
  \/ \E id \in SessionIds : CallFail(id)

SpecService == InitSessions /\ [][NextService]_vars

\* --------------------------------------------- shared-file specification
\* two plan runs, each with a MemoryBank instance of its own on the one file
Instances == {1, 2}

\* what an instance stores under a key of its data
StoredValue(key) == IF key = "user_profile" THEN ProfileTest ELSE PrefsTest

InitShared ==
  /\ recipes = <<>>
  /\ nutrition_data = MissingTable
  /\ hashSeed = CHOOSE h \in HashOrders : TRUE
  /\ InitOrchestratorAlone
  /\ banks = [i \in Instances |-> [at |-> "closed", data |-> initial_data, stored |-> {}]]
  /\ vPlan = <<>>
  /\ vProfile = EmptyDict
  /\ vOut = NoResult
  /\ vOut2 = NoResult
  /\ pPrefs = EmptyDict
  /\ pOut = NoResult
  /\ sOut = NoResult

sharedRest == <<data, orchVars, componentVars, verifierVars, plannerVars, schedulerVars>>

\* MemoryBank.__init__: the file is read into the instance's data
Open(i) ==
  /\ banks[i].at = "closed"
  /\ banks' = [banks EXCEPT ![i].at = "open", ![i].data = load(file)]
  /\ UNCHANGED <<file, sharedRest>>

\* set_user_profile or set_preferences of the instance: its data is changed
\* and written as a whole
Store(i, key) ==
  /\ banks[i].at = "open"
  /\ key \notin banks[i].stored
  /\ banks' = [banks EXCEPT ![i].data[key] = StoredValue(key), ![i].stored = @ \cup {key}]
  /\ file' = save(file, banks'[i].data, "ok")
  /\ UNCHANGED sharedRest

\* add_plan_to_history, line 80: the entry is appended to the instance's data
AppendEntry(i) ==
  /\ banks[i].at = "open"
  /\ banks' = [banks EXCEPT ![i].at = "appended",
                             ![i].data = add_plan_to_history(@, PlanIdOf(i), 100, i)]
  /\ UNCHANGED <<file, sharedRest>>

\* add_plan_to_history, line 87: _save writes the instance's data as a whole
SaveEntry(i) ==
  /\ banks[i].at = "appended"
  /\ banks' = [banks EXCEPT ![i].at = "done"]
  /\ file' = save(file, banks[i].data, "ok")
  /\ UNCHANGED sharedRest

NextShared ==
  \/ \E i \in Instances : Open(i)
  \/ \E i \in Instances, key \in {"user_profile", "preferences"} : Store(i, key)
  \/ \E i \in Instances : AppendEntry(i)
  \/ \E i \in Instances : SaveEntry(i)

SpecShared == InitShared /\ [][NextShared]_vars

\* ------------------------------------------------- verifier specification
\* entries a verified plan is built from
EntryPool ==
  { [meal |-> "lunch", cal |-> 1400, protein_g |-> 45, ingredients |-> <<"Onion", "garlic", "Onion">>],
    [meal |-> "breakfast", cal |-> 450, protein_g |-> 15, ingredients |-> <<"eggs", "rice">>],
    [meal |-> "snack", cal |-> 1400, protein_g |-> 45],
    [meal |-> "workout", type |-> "rest", duration_min |-> 20] }

\* the plan of k days whose entries are those of ms, entry i on day dayOf[i]
PlanOf(k, ms, dayOf) ==
  [d \in 1..k |->
     [day |-> Days[d],
      meals |-> LET idx == {i \in DOMAIN ms : dayOf[i] = d}
                IN  IF idx = {} THEN <<>>
                    ELSE SubSeq(ms, CHOOSE i \in idx : \A j \in idx : i <= j,
                                    CHOOSE i \in idx : \A j \in idx : i >= j)]]

\* plans of at most MaxDays days holding at most MaxMeals entries of the pool
\* in all
PlansOver(pool) ==
  UNION { UNION { { PlanOf(k, ms, dayOf) :
                      dayOf \in {f \in [DOMAIN ms -> 1..k] :
                                   \A i, j \in DOMAIN ms : i <= j => f[i] <= f[j]} } :
                  ms \in SeqUpTo(pool, MaxMeals) } : k \in 0..MaxDays }

\* plans of the whole week holding at most MaxMeals entries in all
WeekPool ==
  { [meal |-> "snack", cal |-> 1400, protein_g |-> 45],
    [meal |-> "workout", type |-> "rest", duration_min |-> 20] }

WeekPlans ==
  UNION { { PlanOf(7, ms, dayOf) :
              dayOf \in {f \in [DOMAIN ms -> 1..7] :
                           \A i, j \in DOMAIN ms : i <= j => f[i] <= f[j]} } :
          ms \in SeqUpTo(WeekPool, MaxMeals) }

VerifierPlans == PlansOver(EntryPool) \cup WeekPlans

VerifierProfiles == {EmptyDict, ProfileTest, ProfileLose, ProfileOdd, ProfileSedentary,
                     ProfileLight, ProfileActive, ProfileVeryActive, ProfileAthlete}

InitVerifier ==
  /\ nutrition_data \in Tables
  /\ hashSeed \in HashOrders
  /\ vPlan \in VerifierPlans
  /\ vProfile \in VerifierProfiles
  /\ vOut = NoResult
  /\ vOut2 = NoResult
  /\ recipes = <<>>
  /\ pPrefs = EmptyDict
  /\ pOut = NoResult
  /\ sOut = NoResult
  /\ InitOrchestratorIdle

\* NutritionVerifierAgent.execute on the harness input
Verify ==
  /\ vOut = NoResult
  /\ vOut' = verifier_execute(vPlan, vProfile, nutrition_data, hashSeed)
  /\ UNCHANGED <<bankVars, nutrition_data, hashSeed, recipes, plannerVars, schedulerVars, memoryVars,
                 orchVars, vPlan, vProfile, vOut2>>

\* the same call once more
VerifyAgain ==
  /\ vOut # NoResult
  /\ vOut2 = NoResult
  /\ vOut2' = verifier_execute(vPlan, vProfile, nutrition_data, hashSeed)
  /\ UNCHANGED <<bankVars, nutrition_data, hashSeed, recipes, plannerVars, schedulerVars, memoryVars,
                 orchVars, vPlan, vProfile, vOut>>

\* the program is started again: the same CSV is read, the interpreter draws
\* a new string-hash seed
NewProcess ==
  /\ vOut # NoResult
  /\ vOut2 = NoResult
  /\ hashSeed' \in HashOrders \ {hashSeed}
  /\ UNCHANGED <<bankVars, nutrition_data, recipes, plannerVars, verifierVars, schedulerVars, memoryVars,
                 orchVars>>

NextVerifier == Verify \/ VerifyAgain \/ NewProcess

SpecVerifier == InitVerifier /\ [][NextVerifier]_vars

\* ------------------------------------------------ scheduler specification
\* entries a scheduled plan is built from
TimedPool ==
  { [meal |-> "breakfast", time |-> T0800, cal |-> 450, protein_g |-> 15,
     ingredients |-> <<"eggs", "rice">>],
    [meal |-> "lunch", time |-> T1330, cal |-> 700, protein_g |-> 30,
     ingredients |-> <<"rice", "Onion", "rice">>],
    [meal |-> "workout", time |-> T0800, type |-> "rest", duration_min |-> 20],
    [meal |-> "workout", time |-> T0700, type |-> "cardio", duration_min |-> 30] }

\* plans the planner builds
BuiltCatalogs == OrchestratorCatalogs \cup {<<RecipeSmoothie, RecipeThali>>}

BuiltPlans == { planner_execute(c, EmptyDict, q).meal_plan :
                  c \in BuiltCatalogs, q \in {EmptyDict, PrefsTest} }

SchedulerPlans == PlansOver(TimedPool) \cup BuiltPlans

InitScheduler ==
  /\ vPlan \in SchedulerPlans
  /\ vProfile \in {EmptyDict, ProfileTest}
  /\ sOut = NoResult
  /\ vOut = NoResult
  /\ vOut2 = NoResult
  /\ nutrition_data = MissingTable
  /\ hashSeed = CHOOSE h \in HashOrders : TRUE
  /\ recipes = <<>>
  /\ pPrefs = EmptyDict
  /\ pOut = NoResult
  /\ InitOrchestratorIdle

\* SchedulerAgent.execute on the harness input
Schedule ==
  /\ sOut = NoResult
  /\ sOut' = [kind |-> "result"] @@ scheduler_execute(vPlan, vProfile)
  /\ UNCHANGED <<bankVars, nutrition_data, hashSeed, recipes, verifierVars, plannerVars, memoryVars,
                 orchVars>>

NextScheduler == Schedule

SpecScheduler == InitScheduler /\ [][NextScheduler]_vars

\* --------------------------------------------------- search specification
SearchPool == {RecipeThali, RecipePasta, RecipeDal}
SearchCatalogs == SeqUpTo(SearchPool, MaxCatalog)
SearchPreferences ==
  PreferencePool \cup { [allergies |-> <<"gluten">>], [cuisine |-> <<"Indian">>],
                        [gut_issues |-> TRUE] }

\* slot and calorie target of searches the planner makes
SearchRequests == { [meal_type |-> "snack", calorie_target |-> 400],
                    [meal_type |-> "lunch", calorie_target |-> 700],
                    [meal_type |-> "dinner", calorie_target |-> 650] }

InitSearch ==
  /\ recipes \in SearchCatalogs
  /\ pPrefs \in SearchPreferences
  /\ pOut = NoResult
  /\ nutrition_data = MissingTable
  /\ hashSeed = CHOOSE h \in HashOrders : TRUE
  /\ vPlan = <<>>
  /\ vProfile = EmptyDict
  /\ vOut = NoResult
  /\ vOut2 = NoResult
  /\ sOut = NoResult
  /\ InitOrchestratorIdle

\* RecipeWorker.execute on the harness input
Search(request) ==
  /\ pOut = NoResult
  /\ pOut' = [kind |-> "found", meal_type |-> request.meal_type,
              calorie_target |-> request.calorie_target]
             @@ recipe_worker_execute(recipes, pPrefs, request.meal_type,
                                      request.calorie_target)
  /\ UNCHANGED <<bankVars, nutrition_data, hashSeed, recipes, pPrefs, verifierVars, schedulerVars,
                 memoryVars, orchVars>>

NextSearch == \E request \in SearchRequests : Search(request)

SpecSearch == InitSearch /\ [][NextSearch]_vars

\* -------------------------------------------------- planner specification
PlannerCatalogs == {c \in SeqUpTo(RecipePool, MaxRecipes) :
                      \A i, j \in DOMAIN c : c[i] = c[j] => i = j}

\* the database files a planner's recipe worker is constructed on
PlannerDbs == {MissingRecipeDb, RecipeDb(EmptyDict)}
                \cup {RecipeDb([recipes |-> c]) : c \in PlannerCatalogs}

InitPlanner ==
  /\ recipes \in {load_recipes(db) : db \in PlannerDbs}
  /\ pPrefs \in PreferencePool
  /\ pOut = NoResult
  /\ nutrition_data = MissingTable
  /\ hashSeed \in HashOrders
  /\ vPlan = <<>>
  /\ vProfile = EmptyDict
  /\ vOut = NoResult
  /\ vOut2 = NoResult
  /\ sOut = NoResult
  /\ InitOrchestratorIdle

\* PlannerAgent.execute on the harness input
Plan ==
  /\ pOut = NoResult
  /\ pOut' = [kind |-> "result"] @@ planner_execute(recipes, EmptyDict, pPrefs)
  /\ UNCHANGED <<bankVars, nutrition_data, hashSeed, recipes, pPrefs, verifierVars, schedulerVars,
                 memoryVars, orchVars>>

NextPlanner == Plan \/ \E request \in SearchRequests : Search(request)

SpecPlanner == InitPlanner /\ [][NextPlanner]_vars

\* ---------------------------------------------------- build specification
\* recipe number i of a catalog of lunches and dinners
NumberedRecipe(i) ==
  [id |-> i, title |-> i,
   meal_type |-> IF i % 3 = 0 THEN <<"dinner">> ELSE <<"lunch", "dinner">>,
   cuisine |-> "Indian", calories |-> 600 + 20 * i, protein_g |-> 20 + i,
   ingredients |-> <<"rice">>, prep_time_min |-> 30, allergens |-> <<>>,
   gut_friendly |-> (i # 2)]

\* the members of a set of numbers in ascending order
Ascending(S) ==
  [k \in 1..Cardinality(S) |-> CHOOSE i \in S : Cardinality({j \in S : j < i}) = k - 1]

\* catalogs holding some of the first MaxCatalog numbered recipes, in order
BuildCatalogs ==
  { [k \in DOMAIN Ascending(S) |-> NumberedRecipe(Ascending(S)[k])] :
      S \in SUBSET (1..MaxCatalog) }

InitBuild ==
  /\ recipes \in BuildCatalogs
  /\ pPrefs \in {EmptyDict, [gut_issues |-> TRUE]}
  /\ pOut = NoResult
  /\ nutrition_data = MissingTable
  /\ hashSeed = CHOOSE h \in HashOrders : TRUE
  /\ vPlan = <<>>
  /\ vProfile = EmptyDict
  /\ vOut = NoResult
  /\ vOut2 = NoResult
  /\ sOut = NoResult
  /\ InitOrchestratorIdle

NextBuild == Plan

SpecBuild == InitBuild /\ [][NextBuild]_vars

\* ------------------------------------------------------------------ claims
IsPrefix(a, b) == Len(a) <= Len(b) /\ a = SubSeq(b, 1, Len(a))

\* a create_meal_plan call has ended and nothing was called since
CallEnded == pc = "idle" /\ outcome.kind \in {"returned", "raised"}

\* what a memory bank opened on the file would hold
Persisted(f) == load(f)

\* C1: create_meal_plan with an empty stored profile and no profile override
\* raises, returns no plan record, runs none of planner, verifier and
\* scheduler, and leaves the history log as it was.
C1_EmptyProfileRaises ==
  (/\ CallEnded
   /\ DOMAIN before.data.user_profile = {}
   /\ DOMAIN Get(run.user_input, "profile", EmptyDict) = {})
  => /\ outcome.kind = "raised"
     /\ trace = <<>>
     /\ data.history = before.data.history
     /\ file = before.file

\* such a call made when the history already holds an entry
C1_Witness ==
  /\ CallEnded
  /\ DOMAIN before.data.user_profile = {}
  /\ DOMAIN Get(run.user_input, "profile", EmptyDict) = {}
  /\ outcome.kind = "raised"
  /\ before.data.history # <<>>

\* C2: every successful create_meal_plan appends exactly one history entry
\* with the plan_id of the returned record and success_rate 1.0 if the
\* verification passed, else 0.8, keeping the earlier entries; the history
\* grows by exactly the number of successful runs, whatever the failed ones.
C2_HistoryGrowsBySuccesses ==
  /\ pc = "idle" => Len(data.history) = returned
  /\ (CallEnded /\ outcome.kind = "returned") =>
       /\ data.history = Append(before.data.history, data.history[Len(data.history)])
       /\ data.history[Len(data.history)].plan_id = outcome.value.plan_id
       /\ data.history[Len(data.history)].success_rate
            = (IF outcome.value.verification.passed THEN 10 ELSE 8)

\* C3: each create_meal_plan creates exactly one session, active while the
\* call runs, completed when it returned a record and failed when it raised;
\* between calls no session is active or paused.
C3_SessionLifecycle ==
  /\ [](/\ pc = "idle" =>
             \A i \in DOMAIN sessions : sessions[i].status \in {"completed", "failed"}
        /\ pc # "idle" =>
             /\ run.session_id = Len(sessions)
             /\ sessions[run.session_id].status = "active"
             /\ \A i \in DOMAIN sessions \ {run.session_id} :
                  sessions[i].status \in {"completed", "failed"}
        /\ (CallEnded /\ outcome.kind = "returned") =>
             sessions[run.session_id].status = "completed"
        /\ (CallEnded /\ outcome.kind = "raised") =>
             sessions[run.session_id].status = "failed")
  /\ [][Len(sessions') = Len(sessions) + (IF pc = "idle" /\ pc' # "idle" THEN 1 ELSE 0)]_vars

\* two calls have ended, one with a record and one with an error
C3_Witness ==
  /\ pc = "idle"
  /\ \E i \in DOMAIN sessions : sessions[i].status = "completed"
  /\ \E i \in DOMAIN sessions : sessions[i].status = "failed"

\* C4: within a run the steps are planner, verifier, scheduler, history
\* append, session completion, in that order and each at most once; a step
\* runs only if every earlier one succeeded; the verifier and the scheduler
\* receive the meal plan the planner produced.
C4_StepOrder ==
  /\ IsPrefix(trace, <<"planner", "verifier", "scheduler", "history", "complete">>)
  /\ "verifier" \in Range(trace) => "planner_result" \in DOMAIN run
  /\ "scheduler" \in Range(trace) => "verification_result" \in DOMAIN run
  /\ "history" \in Range(trace) => "scheduler_result" \in DOMAIN run
  /\ "complete" \in Range(trace) => "final_result" \in DOMAIN run
  /\ "error" \in DOMAIN run => (pc \in {"except", "idle"} /\ "complete" \notin Range(trace))
  /\ (CallEnded /\ outcome.kind = "returned") => Len(trace) = 5
  /\ "verifier_arg" \in DOMAIN run => run.verifier_arg = run.planner_result.meal_plan
  /\ "scheduler_arg" \in DOMAIN run => run.scheduler_arg = run.planner_result.meal_plan

\* a run that went through all five steps on a plan with meals
C4_Witness ==
  /\ CallEnded
  /\ outcome.kind = "returned"
  /\ trace = <<"planner", "verifier", "scheduler", "history", "complete">>
  /\ AllIngredients(run.planner_result.meal_plan) # <<>>

\* C5: when a step of create_meal_plan fails, the history log of the memory
\* bank, in memory and on file, is the same as before the call.
C5_FailureKeepsHistory ==
  (CallEnded /\ outcome.kind = "raised") =>
    /\ data.history = before.data.history
    /\ Persisted(file).history = Persisted(before.file).history

\* C6: a create_meal_plan call, with or without overrides, succeeding or
\* failing, leaves the profile and the preferences of the memory bank and
\* those on file equal to their values before the call.
C6_PlanKeepsProfile ==
  CallEnded =>
    /\ data.user_profile = before.data.user_profile
    /\ data.preferences = before.data.preferences
    /\ Persisted(file).user_profile = Persisted(before.file).user_profile
    /\ Persisted(file).preferences = Persisted(before.file).preferences

\* C7: the verification result has passed = TRUE exactly when daily_calories
\* >= 0.9 * target_calories, daily_protein >= 0.9 * target_protein and
\* gut_risk_items is empty.
C7_PassedIffAllCriteria ==
  vOut.kind = "result" =>
    (vOut.passed <=>
       /\ FracGeq(vOut.daily_calories, FracScale(vOut.target_calories, 9, 10))
       /\ FracGeq(vOut.daily_protein, FracScale(vOut.target_protein, 9, 10))
       /\ vOut.gut_risk_items = <<>>)

\* a verification that passed, and whose plan lists ingredients the table knows
C7_Witness ==
  /\ vOut.kind = "result"
  /\ vOut.passed
  /\ AllIngredients(vPlan) # <<>>

\* C8: verify never raises: whatever the plan, the profile and the state of
\* the gut table, execute returns a result.
C8_VerifyNeverRaises == vOut.kind # "raised"

\* C9: two verifications of the same plan with the same profile and the same
\* gut table give results equal in every field.
C9_VerifyDeterministic ==
  (vOut.kind = "result" /\ vOut2.kind = "result") => vOut2 = vOut

\* C10: the planner's week plan has exactly the 7 day keys Monday..Sunday in
\* that order, and every day's entry sequence is non-empty whenever the
\* catalog is non-empty.
C10_SevenDaysNonEmpty ==
  pOut.kind = "result" =>
    /\ Len(pOut.meal_plan) = 7
    /\ \A d \in 1..7 : pOut.meal_plan[d].day = Days[d]
    /\ recipes # <<>> => \A d \in 1..7 : pOut.meal_plan[d].meals # <<>>

\* a plan built from a non-empty catalog in which no recipe matched a slot
C10_Witness ==
  /\ pOut.kind = "result"
  /\ recipes # <<>>
  /\ \A d \in 1..7 : Len(pOut.meal_plan[d].meals) = 1

\* a and b hold the same entries, each as often
IsPermutation(a, b) ==
  /\ Len(a) = Len(b)
  /\ \A i \in DOMAIN a :
       Cardinality({j \in DOMAIN a : a[j] = a[i]}) = Cardinality({j \in DOMAIN b : b[j] = a[i]})

\* C11: the record returned by a successful create_meal_plan has exactly the
\* 7 day keys in weekday order, each day's entries are a permutation of the
\* entries the planner produced for that day, and the verification figures
\* of the record are those of the entries in its days.
C11_RecordDaysArePlannedDays ==
  (CallEnded /\ outcome.kind = "returned") =>
    LET days == outcome.value.days
        planned == run.planner_result.meal_plan
        figures == verifier_execute(days, data.user_profile, nutrition_data, hashSeed)
    IN  /\ Len(days) = 7
        /\ \A d \in 1..7 :
             /\ days[d].day = Days[d]
             /\ IsPermutation(days[d].meals, planned[d].meals)
        /\ figures.kind = "result"
        /\ outcome.value.verification.passed = figures.passed
        /\ outcome.value.verification.daily_calories = figures.daily_calories
        /\ outcome.value.verification.target_calories = figures.target_calories
        /\ outcome.value.verification.daily_protein = figures.daily_protein
        /\ outcome.value.verification.target_protein = figures.target_protein
        /\ outcome.value.verification.recommendations = figures.recommendations

\* a returned record in which the scheduler moved an entry of some day
C11_Witness ==
  /\ CallEnded
  /\ outcome.kind = "returned"
  /\ \E d \in 1..7 :
       /\ Len(outcome.value.days[d].meals) > 1
       /\ outcome.value.days[d].meals # run.planner_result.meal_plan[d].meals

\* the four filters of a search, for a recipe of the catalog
AllFourFilters(recipe, slot, preferences) ==
  /\ slot \in Range(recipe.meal_type)
  /\ Range(Get(preferences, "allergies", <<>>)) \cap Range(recipe.allergens) = {}
  /\ Get(preferences, "cuisine", <<>>) # <<>> =>
       recipe.cuisine \in Range(preferences.cuisine) \cup {"Indian", "South Indian"}
  /\ Get(preferences, "gut_issues", FALSE) => recipe.gut_friendly

\* positions of the catalog whose recipe meets the four filters of the search made
Matching == {i \in DOMAIN recipes : AllFourFilters(recipes[i], pOut.meal_type, pPrefs)}

\* C12: a search returns a recipe only if the slot is in its meal_type, it
\* has none of the excluded allergens, its cuisine is preferred or Indian /
\* South Indian when cuisines are preferred, and it is gut friendly when
\* gut_friendly_only; every catalog recipe meeting all four is counted in
\* total_found and is returned unless the cap of 5 cuts it off.
C12_SearchFilters ==
  pOut.kind = "found" =>
    /\ \A k \in DOMAIN pOut.recipes :
         \E i \in Matching : recipes[i] = pOut.recipes[k]
    /\ pOut.total_found = Cardinality(Matching)
    /\ Cardinality(Matching) <= 5 =>
         \A i \in Matching :
           Cardinality({k \in DOMAIN pOut.recipes : pOut.recipes[k] = recipes[i]})
             = Cardinality({j \in Matching : recipes[j] = recipes[i]})

\* a search with preferred cuisines that returned a recipe of another
\* cuisine and left out a recipe of the catalog
C12_Witness ==
  /\ pOut.kind = "found"
  /\ Get(pPrefs, "cuisine", <<>>) # <<>>
  /\ \E k \in DOMAIN pOut.recipes : pOut.recipes[k].cuisine \notin Range(pPrefs.cuisine)
  /\ pOut.total_found < Len(recipes)

Distance(i) == Abs(recipes[i].calories - pOut.calorie_target)

\* position j of the catalog ranks before position i
RanksBefore(j, i) == Distance(j) < Distance(i) \/ (Distance(j) = Distance(i) /\ j < i)

\* C13: the result is the first min(5, number of matches) recipes of the
\* matches sorted ascending by |calories - calorie_target|, equal distances
\* in catalog order; it never has more than 5 recipes and no omitted match
\* is strictly closer to the target than a returned one.
C13_SearchRanking ==
  pOut.kind = "found" =>
    /\ Len(pOut.recipes) = (IF Cardinality(Matching) < 5 THEN Cardinality(Matching) ELSE 5)
    /\ \A k \in DOMAIN pOut.recipes :
         \E i \in Matching :
           /\ Cardinality({j \in Matching : RanksBefore(j, i)}) = k - 1
           /\ pOut.recipes[k] = recipes[i]
    /\ \A i \in Matching :
         Cardinality({j \in Matching : RanksBefore(j, i)}) >= 5 =>
           \A k \in DOMAIN pOut.recipes :
             Abs(pOut.recipes[k].calories - pOut.calorie_target) <= Distance(i)

\* six matches of which five are returned, two different recipes at the
\* same distance among them
C13_Witness ==
  /\ pOut.kind = "found"
  /\ pOut.total_found = 6
  /\ Len(pOut.recipes) = 5
  /\ \E k \in 1..4 :
       /\ pOut.recipes[k] # pOut.recipes[k + 1]
       /\ Abs(pOut.recipes[k].calories - pOut.calorie_target)
            = Abs(pOut.recipes[k + 1].calories - pOut.calorie_target)

\* C14: when the recipe database is missing the catalog is empty and nothing
\* raises: every slot search returns an empty list and the planner returns a
\* 7-day plan whose days hold only their workout entry.
C14_MissingCatalogDegrades ==
  recipes = load_recipes(MissingRecipeDb) =>
    /\ recipes = <<>>
    /\ pOut.kind = "found" => (pOut.recipes = <<>> /\ pOut.total_found = 0)
    /\ pOut.kind = "result" =>
         /\ Len(pOut.meal_plan) = 7
         /\ \A d \in 1..7 :
              /\ pOut.meal_plan[d].day = Days[d]
              /\ Len(pOut.meal_plan[d].meals) = 1
              /\ pOut.meal_plan[d].meals[1].meal = "workout"
              /\ pOut.meal_plan[d].meals[1].type = workout_schedule[Days[d]].type

\* a plan built on the missing database for a user with preferences
C14_Witness ==
  /\ recipes = load_recipes(MissingRecipeDb)
  /\ pOut.kind = "result"
  /\ pPrefs # EmptyDict

\* (day, entry, position) of every ingredient occurrence of a plan
IngredientPlaces(plan) ==
  UNION { UNION { { <<d, m, i>> : i \in DOMAIN Get(plan[d].meals[m], "ingredients", <<>>) } :
                  m \in DOMAIN plan[d].meals } : d \in DOMAIN plan }

NameAt(plan, place) == plan[place[1]].meals[place[2]].ingredients[place[3]]

\* C15: each shopping-list item's meals_used is the number of times its name
\* appears in the ingredient lists of all entries of all days, and the sum of
\* meals_used is the total length of all ingredient lists.
C15_MealsUsedCountsOccurrences ==
  sOut.kind = "result" =>
    LET list == sOut.shopping_list
        places == IngredientPlaces(vPlan)
    IN  /\ \A k \in DOMAIN list :
             list[k].meals_used
               = Cardinality({p \in places : NameAt(vPlan, p) = list[k].item})
        /\ \A p \in places : \E k \in DOMAIN list : list[k].item = NameAt(vPlan, p)
        /\ \A k, l \in DOMAIN list : list[k].item = list[l].item => k = l
        /\ SumKey(list, "meals_used") = Cardinality(places)

\* a plan with a day that holds an entry without ingredients and two
\* entries naming the same ingredient
C15_Witness ==
  /\ sOut.kind = "result"
  /\ \E d \in DOMAIN vPlan :
       /\ \E m \in DOMAIN vPlan[d].meals : "ingredients" \notin DOMAIN vPlan[d].meals[m]
       /\ \E p, q \in IngredientPlaces(vPlan) :
            /\ p[1] = d /\ q[1] = d /\ p[2] # q[2]
            /\ NameAt(vPlan, p) = NameAt(vPlan, q)
  /\ \E k \in DOMAIN sOut.shopping_list : sOut.shopping_list[k].meals_used >= 3

TimeOf(entry) == Get(entry, "time", T0000)

\* out holds the entries of in ordered by non-decreasing time, entries of
\* equal time in their order in in
IsStableTimeSort(out, in) ==
  /\ Len(out) = Len(in)
  /\ \E pi \in Perms(DOMAIN in) :
       /\ \A k \in DOMAIN out : out[k] = in[pi[k]]
       /\ \A k, l \in DOMAIN out :
            k < l => /\ ~StrLess(TimeOf(out[l]), TimeOf(out[k]))
                     /\ TimeOf(out[k]) = TimeOf(out[l]) => pi[k] < pi[l]

\* C16: schedule returns for each day the same entries ordered by
\* non-decreasing time string, entries of equal time in input order, day keys
\* and their order unchanged; in a built plan an 08:00 breakfast comes before
\* the 08:00 workout and a 07:00 workout before breakfast.
C16_StableTimeOrder ==
  sOut.kind = "result" =>
    LET scheduled == sOut.scheduled_plan
    IN  /\ Len(scheduled) = Len(vPlan)
        /\ \A d \in DOMAIN vPlan :
             /\ scheduled[d].day = vPlan[d].day
             /\ IsStableTimeSort(scheduled[d].meals, vPlan[d].meals)
        /\ vPlan \in BuiltPlans =>
             \A d \in DOMAIN scheduled : \A k, l \in DOMAIN scheduled[d].meals :
               (scheduled[d].meals[k].meal = "breakfast"
                  /\ scheduled[d].meals[l].meal = "workout") =>
                 /\ scheduled[d].meals[l].time = T0800 => k < l
                 /\ scheduled[d].meals[l].time = T0700 => l < k

\* a built plan with breakfasts has been scheduled, and so has a day in which
\* an entry of a later time came first
C16_Witness ==
  /\ sOut.kind = "result"
  /\ vPlan \in BuiltPlans
  /\ \E m \in DOMAIN vPlan[7].meals : vPlan[7].meals[m].meal = "breakfast"
  /\ \E m \in DOMAIN vPlan[2].meals : vPlan[2].meals[m].meal = "breakfast"
  /\ sOut.scheduled_plan[2].meals # vPlan[2].meals

\* a = b for fractions, by whole part and remainder
FracSame(a, b) ==
  /\ a.n \div a.d = b.n \div b.d
  /\ (a.n % a.d) * b.d = (b.n % b.d) * a.d

\* the multiplier of an activity level, in thousandths
ClaimedMultiplier ==
  [sedentary |-> 1200, light |-> 1375, moderate |-> 1550, active |-> 1725,
   very_active |-> 1900]

\* the calorie offset of a goal
ClaimedOffset == [gain_weight |-> 500, lose_weight |-> -500, maintain |-> 0]

\* C17: target_calories = (10*weight_kg + 6.25*height_cm - 5*age + 5) *
\* multiplier + offset, the multiplier being 1.2 / 1.375 / 1.55 / 1.725 / 1.9
\* for sedentary / light / moderate / active / very_active and 1.55 for any
\* other level, the offset +500 / -500 / 0 for gain_weight / lose_weight /
\* maintain; age 20, height 168, weight 45, gain_weight, moderate give BMR
\* 1405, TDEE 2177.75 and target_calories 2677.75.
C17_TargetCalories ==
  (/\ vOut.kind = "result"
   /\ {"weight_kg", "height_cm", "age", "goal", "activity_level"} \subseteq DOMAIN vProfile
   /\ vProfile.goal \in DOMAIN ClaimedOffset) =>
    LET bmr4 == 40 * vProfile.weight_kg + 25 * vProfile.height_cm - 20 * vProfile.age + 20
        multiplier == Get(ClaimedMultiplier, vProfile.activity_level, 1550)
        offset == ClaimedOffset[vProfile.goal]
    IN  /\ FracSame(vOut.target_calories, Frac(bmr4 * multiplier + offset * 4000, 4000))
        /\ (vProfile.age = 20 /\ vProfile.height_cm = 168 /\ vProfile.weight_kg = 45
              /\ vProfile.goal = "gain_weight" /\ vProfile.activity_level = "moderate") =>
             /\ bmr4 = 4 * 1405
             /\ FracSame(FracSub(vOut.target_calories, Frac(500, 1)), Frac(217775, 100))
             /\ FracSame(vOut.target_calories, Frac(267775, 100))

\* a target computed for a level that is none of the five and a goal
\* without offset
C17_Witness ==
  /\ vOut.kind = "result"
  /\ vProfile = ProfileAthlete

\* C18: target_protein is exactly 2 times the profile's weight_kg, whatever
\* the goal, the activity level, the age, the height and the plan.
C18_TargetProtein ==
  (vOut.kind = "result" /\ "weight_kg" \in DOMAIN vProfile) =>
    vOut.target_protein.n = 2 * vProfile.weight_kg * vOut.target_protein.d

\* a target for a user gaining weight whose plan holds entries
C18_Witness ==
  /\ vOut.kind = "result"
  /\ vProfile = ProfileVeryActive
  /\ AllMeals(vPlan) # <<>>

\* C19: for a plan in which no entry carries protein_g and a profile with
\* weight_kg > 0, daily_protein is 0, protein_met and passed are false and
\* the recommendations hold a protein recommendation.
C19_NoProteinFails ==
  (/\ vOut.kind = "result"
   /\ \A i \in DOMAIN AllMeals(vPlan) : "protein_g" \notin DOMAIN AllMeals(vPlan)[i]
   /\ "weight_kg" \in DOMAIN vProfile
   /\ vProfile.weight_kg > 0) =>
    /\ vOut.daily_protein.n = 0
    /\ ~vOut.protein_met
    /\ ~vOut.passed
    /\ \E k \in DOMAIN vOut.recommendations : vOut.recommendations[k].about = "protein"

\* such a plan with entries, verified against a loaded gut table
C19_Witness ==
  /\ vOut.kind = "result"
  /\ AllMeals(vPlan) # <<>>
  /\ \A i \in DOMAIN AllMeals(vPlan) : "protein_g" \notin DOMAIN AllMeals(vPlan)[i]
  /\ "weight_kg" \in DOMAIN vProfile
  /\ nutrition_data.loaded

\* set_user_profile returned and nothing was called since
ProfileStored ==
  /\ pc = "idle"
  /\ outcome.kind = "stored"
  /\ outcome.key = "user_profile"
  /\ ~outcome.raised

\* C20: after set_user_profile(p), get_user_profile() returns a profile equal
\* to p in every field, from the same memory bank and from one newly opened
\* on the same file; preferences, pantry and history are unchanged.
C20_ProfileRoundTrip ==
  ProfileStored =>
    /\ Get(data, "user_profile", EmptyDict) = outcome.value
    /\ Get(Persisted(file), "user_profile", EmptyDict) = outcome.value
    /\ data.preferences = before.data.preferences
    /\ data.pantry = before.data.pantry
    /\ data.history = before.data.history

\* a profile stored over a different one in a bank that holds a history
C20_Witness ==
  /\ ProfileStored
  /\ outcome.value = ProfileTest
  /\ before.data.user_profile # outcome.value
  /\ before.data.history # <<>>

\* the entries of a day for a slot
EntriesFor(d, slot) == SelectSeq(pOut.meal_plan[d].meals, LAMBDA m : m.meal = slot)

\* the ranked candidates of the lunch and of the dinner search of the build
LunchCandidates == recipe_worker_execute(recipes, pPrefs, "lunch", 700).recipes
DinnerCandidates == recipe_worker_execute(recipes, pPrefs, "dinner", 650).recipes

\* every day with lunch candidates has one lunch entry, the candidate at the
\* 0-based index given for the day
LunchIs(index) ==
  pOut.kind = "result" =>
    \A d \in 1..7 :
      IF LunchCandidates = <<>> THEN EntriesFor(d, "lunch") = <<>>
      ELSE /\ Len(EntriesFor(d, "lunch")) = 1
           /\ EntriesFor(d, "lunch")[1].recipe_id = LunchCandidates[index[d] + 1].id

\* C22 as claimed: on every day except Monday the lunch entry is the
\* candidate at index 1 of the ranked lunch list, on Monday the candidate at
\* index 0; with fewer than 2 candidates the index is 0.
C22_LunchIndexAsClaimed ==
  LunchIs([d \in 1..7 |-> IF Len(LunchCandidates) < 2 THEN 0
                          ELSE IF d = 1 THEN 0 ELSE 1])

\* C22 amended: on Monday the lunch entry is the candidate at index 1 of the
\* ranked lunch list, on every other day the candidate at index 0; with
\* fewer than 2 candidates the index is 0.
C22_LunchIndex ==
  LunchIs([d \in 1..7 |-> IF Len(LunchCandidates) < 2 THEN 0
                          ELSE IF d = 1 THEN 1 ELSE 0])

\* a plan built with several lunch candidates
C22_Witness ==
  /\ pOut.kind = "result"
  /\ Len(LunchCandidates) >= 3
  /\ EntriesFor(1, "lunch")[1].recipe_id # EntriesFor(2, "lunch")[1].recipe_id

\* C23: with k >= 1 ranked dinner candidates (k <= 5) the dinner of the day
\* with index d (Monday = 0) is candidate d mod k, so for k = 5 Saturday and
\* Sunday repeat Monday's and Tuesday's dinner; with k = 0 no dinner entry is
\* added.
C23_DinnerIndex ==
  pOut.kind = "result" =>
    LET k == Len(DinnerCandidates)
    IN  /\ k <= 5
        /\ \A d \in 0..6 :
             IF k = 0 THEN EntriesFor(d + 1, "dinner") = <<>>
             ELSE /\ Len(EntriesFor(d + 1, "dinner")) = 1
                  /\ d % k \in 0..(k - 1)
                  /\ EntriesFor(d + 1, "dinner")[1].recipe_id
                       = DinnerCandidates[(d % k) + 1].id
        /\ k = 5 =>
             /\ EntriesFor(6, "dinner") = EntriesFor(1, "dinner")
             /\ EntriesFor(7, "dinner") = EntriesFor(2, "dinner")

\* a plan built with five dinner candidates out of six matching recipes
C23_Witness ==
  /\ pOut.kind = "result"
  /\ Len(DinnerCandidates) = 5
  /\ recipe_worker_execute(recipes, pPrefs, "dinner", 650).total_found = 6
  /\ EntriesFor(5, "dinner")[1].recipe_id # EntriesFor(6, "dinner")[1].recipe_id

\* the cal figures of the first n entries of a day, added up
RECURSIVE CalOfEntries(_, _)
CalOfEntries(meals, n) ==
  IF n = 0 THEN 0
  ELSE CalOfEntries(meals, n - 1) + (IF "cal" \in DOMAIN meals[n] THEN meals[n].cal ELSE 0)

\* the cal figures of the first k days of the verified plan, added up
RECURSIVE CalOfDays(_)
CalOfDays(k) ==
  IF k = 0 THEN 0
  ELSE CalOfDays(k - 1) + CalOfEntries(vPlan[k].meals, Len(vPlan[k].meals))

\* C24: daily_calories is the sum of every cal field of every entry of every
\* day divided by the number of day keys, so a 7-day plan is divided by 7
\* even when some days hold no entries; a plan with no days gives 0.
C24_DailyCalories ==
  vOut.kind = "result" =>
    /\ Len(vPlan) = 0 => vOut.daily_calories.n = 0
    /\ Len(vPlan) > 0 => FracSame(vOut.daily_calories, Frac(CalOfDays(Len(vPlan)), Len(vPlan)))
    /\ Len(vPlan) = 7 => vOut.daily_calories.n * vOut.daily_calories.d >= 0
                          /\ FracSame(vOut.daily_calories, Frac(CalOfDays(7), 7))

\* a week with calories on some days and no entries on others was verified
C24_Witness ==
  /\ vOut.kind = "result"
  /\ Len(vPlan) = 7
  /\ \E d \in 1..7 : vPlan[d].meals = <<>>
  /\ CalOfDays(7) = 2800
  /\ FracSame(vOut.daily_calories, Frac(400, 1))

\* ingredient.replace(" ", "_").lower() of the names plans are written with
NormalForm ==
  [i \in Range(Ingredients) |->
     CASE i = "Kidney Beans" -> "kidney_beans" [] i = "Onion" -> "onion" [] OTHER -> i]

\* the table holds each food item at most once
Keyed(table) ==
  \A j, k \in DOMAIN table.rows :
     table.rows[j].food_item = table.rows[k].food_item => j = k

\* the names that appear as an ingredient of some entry of the verified plan
NamesInPlan ==
  UNION { UNION { IF "ingredients" \in DOMAIN vPlan[d].meals[i]
                  THEN Range(vPlan[d].meals[i].ingredients) ELSE {} :
                  i \in DOMAIN vPlan[d].meals } : d \in DOMAIN vPlan }

\* C25: over a table keyed by food item, gut_risk_items holds a name exactly
\* when the name appears as an ingredient in the plan and its normalized
\* form is in the table marked not gut friendly; names are reported as
\* written, each at most once, and a name absent from the table is never
\* flagged.
C25_GutRiskItems ==
  (vOut.kind = "result" /\ Keyed(nutrition_data)) =>
    /\ \A name \in Range(Ingredients) :
         (\E k \in DOMAIN vOut.gut_risk_items : vOut.gut_risk_items[k] = name)
           <=> /\ name \in NamesInPlan
               /\ \E r \in DOMAIN nutrition_data.rows :
                    /\ nutrition_data.rows[r].food_item = NormalForm[name]
                    /\ ~nutrition_data.rows[r].gut_friendly
    /\ Range(vOut.gut_risk_items) \subseteq Range(Ingredients)
    /\ \A j, k \in DOMAIN vOut.gut_risk_items :
         vOut.gut_risk_items[j] = vOut.gut_risk_items[k] => j = k

\* a plan naming a flagged name twice, a friendly one and one the table does
\* not hold was verified
C25_Witness ==
  /\ vOut.kind = "result"
  /\ nutrition_data = TableA
  /\ {"Onion", "eggs", "rice"} \subseteq NamesInPlan
  /\ Len(AllIngredients(vPlan)) > Cardinality(NamesInPlan)
  /\ Range(vOut.gut_risk_items) = {"Onion", "garlic"}

\* C26: recommendations holds one line per failing criterion, the calories
\* line first, then the protein line, then the gut line; their number is the
\* number of false flags among calorie_met, protein_met and gut_safe, and the
\* list is empty exactly when passed is true.
C26_Recommendations ==
  vOut.kind = "result" =>
    LET failing == [calories |-> ~vOut.calorie_met, protein |-> ~vOut.protein_met,
                    gut |-> ~vOut.gut_safe]
        lines == vOut.recommendations
    IN  /\ [k \in DOMAIN lines |-> lines[k].about]
             = SelectSeq(<<"calories", "protein", "gut">>, LAMBDA c : failing[c])
        /\ Len(lines) = Cardinality({c \in DOMAIN failing : failing[c]})
        /\ (lines = <<>>) <=> vOut.passed

\* a verification failed on all three criteria, another on the last two only
C26_Witness ==
  /\ vOut.kind = "result"
  /\ ~vOut.calorie_met /\ ~vOut.protein_met /\ ~vOut.gut_safe
  /\ Len(vOut.recommendations) = 3

\* a name comes before another in the order of the code points of their
\* characters: upper case before lower case, then by letter
ComesBefore(a, b) ==
  LET order == <<"Kidney Beans", "Onion", "banana", "dates", "eggs", "garlic", "rice">>
  IN  \E j, k \in DOMAIN order : order[j] = a /\ order[k] = b /\ j < k

\* C27: the shopping list holds exactly one item per distinct ingredient
\* string of the plan, in ascending lexical order of the names, each with
\* meals_used >= 1; it is empty exactly when no entry has ingredients.
C27_ShoppingList ==
  sOut.kind = "result" =>
    LET list == sOut.shopping_list
    IN  /\ {list[k].item : k \in DOMAIN list} = NamesInPlan
        /\ Len(list) = Cardinality(NamesInPlan)
        /\ \A j, k \in DOMAIN list : j < k => ComesBefore(list[j].item, list[k].item)
        /\ \A k \in DOMAIN list : list[k].meals_used >= 1
        /\ (list = <<>>) <=> (AllIngredients(vPlan) = <<>>)
        /\ sOut.total_items = Len(list)

\* a list of a capitalised and two lower-case names, one of them used twice
C27_Witness ==
  /\ sOut.kind = "result"
  /\ Len(sOut.shopping_list) = 3
  /\ sOut.shopping_list[1].item = "Onion"
  /\ sOut.shopping_list[2].item = "eggs"
  /\ sOut.shopping_list[3].meals_used >= 2
  /\ Len(AllIngredients(vPlan)) > 3

\* the base quantity of a name, in grams or thousandths of a piece
ClaimedBase(name) ==
  CASE name = "eggs" -> 2000 [] name = "banana" -> 1000 [] name = "dates" -> 50
    [] name = "rice" -> 500 [] OTHER -> 100

\* C28: for eggs, banana and dates used in n meals the quantity is
\* int(base_qty * n * n) pieces with base 2, 1 and 0.05: 2 n^2, n^2 and
\* floor(n^2 / 20); every other ingredient gets a weight based on
\* base_qty * n, in grams below 1 kg and in kg from there on.
C28_Quantities ==
  sOut.kind = "result" =>
    \A k \in DOMAIN sOut.shopping_list :
      LET it == sOut.shopping_list[k]
          n == it.meals_used
      IN  CASE it.item = "eggs" -> it.qty = [amount |-> 2 * n * n, unit |-> "pieces"]
            [] it.item = "banana" -> it.qty = [amount |-> n * n, unit |-> "pieces"]
            [] it.item = "dates" -> it.qty = [amount |-> (n * n) \div 20, unit |-> "pieces"]
            [] OTHER ->
                 /\ it.qty.unit \in {"g", "kg"}
                 /\ it.qty.unit = "g" =>
                      ClaimedBase(it.item) * n < 1000 /\ it.qty.amount = ClaimedBase(it.item) * n
                 /\ it.qty.unit = "kg" =>
                      ClaimedBase(it.item) * n >= 1000
                      /\ it.qty.amount * 100 = ClaimedBase(it.item) * n

\* a list with eggs, with dates whose square passes 20, and a weight in kg
C28_Witness ==
  /\ sOut.kind = "result"
  /\ \E j, k, l, m \in DOMAIN sOut.shopping_list :
       /\ sOut.shopping_list[j].item = "eggs" /\ sOut.shopping_list[j].meals_used >= 2
       /\ sOut.shopping_list[k].item = "dates" /\ sOut.shopping_list[k].qty.amount >= 1
       /\ sOut.shopping_list[l].item = "banana"
       /\ sOut.shopping_list[m].qty.unit = "kg"

\* C21 as claimed: resume_session(id) on a paused session resumes that
\* session: the plan is produced within it, it leaves the paused status and
\* ends completed or failed; for an unknown id or a session that is not
\* paused the call raises and changes no session and no history.
C21_ResumeResumesThatSession ==
  (CallEnded /\ "resumed" \in DOMAIN run) =>
    IF "session_id" \in DOMAIN run
    THEN /\ run.session_id = run.resumed
         /\ sessions[run.resumed].status \in {"completed", "failed"}
    ELSE /\ outcome.kind = "raised"
         /\ sessions = run.sessions_before
         /\ data = before.data
         /\ file = before.file

\* C29 as claimed: completed and failed are terminal, no call of pause,
\* resume, complete, fail or update moves a session out of them; a session
\* becomes active only by create_session or by resuming a paused session.
C29_TerminalStatuses ==
  [][\A i \in DOMAIN sessions :
       /\ sessions[i].status \in {"completed", "failed"}
            => sessions'[i].status = sessions[i].status
       /\ (sessions'[i].status = "active" /\ sessions[i].status # "active")
            => sessions[i].status = "paused"]_vars

\* C30 as claimed: when two plan runs append to the same history file through
\* two memory-bank instances, then for every interleaving of their load,
\* append and save steps the file finally holds both history entries, and a
\* profile or preferences saved by one instance is not reverted by the
\* other's save.
C30_NoLostUpdate ==
  (\A i \in Instances : banks[i].at = "done") =>
    /\ \A i \in Instances :
         \E k \in DOMAIN Persisted(file).history :
            Persisted(file).history[k].plan_id = PlanIdOf(i)
    /\ \A key \in {"user_profile", "preferences"} :
         (\E i \in Instances : key \in banks[i].stored)
           => Persisted(file)[key] = StoredValue(key)

====
